---- MODULE Spec2Model ----
(***************************************************************************)
(* Model of the booking engine of src/main.py: the class_list and          *)
(* booking_list MongoDB collections and the FastAPI handlers create_class, *)
(* book_slot, cancel_booking, fetch_class_list and fetch_user_bookings;    *)
(* and of its roadmap store: the roadmaps collection and the handlers      *)
(* save_roadmap_handler, fetch_roadmap and get_projects.                   *)
(*                                                                         *)
(* A collection is the sequence of its documents in insertion order;       *)
(* find_one and update_one act on the first document that matches the      *)
(* filter.  A booking_list document whose "bookings" or "waitlist" field   *)
(* is missing is modelled with the empty sequence in that field: every     *)
(* read of the source goes through .get(field, []) or a query that does    *)
(* not tell the two apart.                                                 *)
(***************************************************************************)
EXTENDS Integers, Sequences, FiniteSets, TLC

VARIABLES
    class_collection,    \* db["class_list"]: sequence of class documents
    booking_collection,  \* db["booking_list"]: sequence of booking documents
    resp,                \* the request last answered and its HTTP response
    created,             \* history: created[i] is class_collection[i] as inserted
    everBooked,          \* history: class_ids for which a book_slot call succeeded
    procs,               \* concurrent requests: control point and locals of each
    served,              \* number of requests taken up by the concurrent workers
    roadmaps_collection, \* db["roadmaps"]: sequence of per-email documents
    saved                \* history: the last body saved for each <<email, title>>

vars == <<class_collection, booking_collection, resp, created, everBooked,
          procs, served, roadmaps_collection, saved>>

(***************************************************************************)
(* Bounds of the model.                                                    *)
(***************************************************************************)
MaxSlots == 2   \* largest total_slots a request body carries
MaxRes == 3     \* largest number of reservations stored over all classes
MaxCount == 3   \* largest bookings + waitlist counter total that still takes bookings
MaxReq == 5     \* largest number of requests served concurrently in one run
MaxQueue == 4   \* largest number of reservations stored for the one class of SpecQueue

ClassIds == {"c1", "c2"}
ClassNames == {"yoga"}
ReqClassNames == {"spin"}
UserIds == {"u1", "u2"}
UserNames == {"ann"}
BookingDates == {"d1"}
Descriptions == {"desc"}
Icons == {"icon"}
Colors == {"red"}
TotalSlots == (0 - 1) .. MaxSlots
\* the bookings and waitlist values a create_class body carries: the defaults
\* of ClassList, or values the caller sets
BodyCounts == {<<0, 0>>, <<1, 1>>}

\* class ClassList(BaseModel): the body of POST /create_class/
ClassList ==
    {c \in [class_name : ClassNames, class_id : ClassIds,
            class_description : Descriptions, icon : Icons, color : Colors,
            total_slots : TotalSlots, bookings : 0 .. 1, waitlist : 0 .. 1] :
        <<c.bookings, c.waitlist>> \in BodyCounts}

\* class Booking(BaseModel): the body of POST /book_slot/
Booking ==
    [class_id : ClassIds, class_name : ReqClassNames, user_name : UserNames,
     user_id : UserIds, booking_date : BookingDates]

\* class CancelBookingRequest(BaseModel): the body of POST /cancel_booking/
CancelBookingRequest == [class_id : ClassIds, user_id : UserIds]

(***************************************************************************)
(* The store primitives the handlers call.                                 *)
(***************************************************************************)

\* collection.find_one({"class_id": class_id}): the position of the first
\* matching document, 0 when there is none.
find_one(coll, class_id) ==
    IF \E i \in 1 .. Len(coll) : coll[i].class_id = class_id
    THEN CHOOSE i \in 1 .. Len(coll) :
            /\ coll[i].class_id = class_id
            /\ \A j \in 1 .. (i - 1) : coll[j].class_id # class_id
    ELSE 0

\* collection.insert_one(doc)
insert_one(coll, doc) == Append(coll, doc)

\* inc_class as a conditional update: bookings is not raised past total_slots
inc_class_capped(coll, class_id, db, dw) ==
    LET i == find_one(coll, class_id) IN
    IF i = 0 \/ (db > 0 /\ coll[i].bookings + db > coll[i].total_slots)
    THEN [coll |-> coll, modified_count |-> 0]
    ELSE [coll |-> [coll EXCEPT ![i].bookings = @ + db, ![i].waitlist = @ + dw],
          modified_count |-> IF db = 0 /\ dw = 0 THEN 0 ELSE 1]

\* class_collection.update_one({"class_id": id}, {"$inc": {"bookings": db,
\* "waitlist": dw}}): the collection afterwards and modified_count.
inc_class(coll, class_id, db, dw) ==
    LET i == find_one(coll, class_id) IN
    IF i = 0
    THEN [coll |-> coll, modified_count |-> 0]
    ELSE [coll |-> [coll EXCEPT ![i].bookings = @ + db, ![i].waitlist = @ + dw],
          modified_count |-> IF db = 0 /\ dw = 0 THEN 0 ELSE 1]

\* push_bookings without upsert=True: no document is created
push_bookings_no_upsert(coll, class_id, entry) ==
    LET i == find_one(coll, class_id) IN
    IF i = 0
    THEN coll
    ELSE [coll EXCEPT ![i].bookings = Append(@, entry)]

\* booking_collection.update_one({"class_id": id}, {"$push": {"bookings":
\* entry}}, upsert=True)
push_bookings(coll, class_id, entry) ==
    LET i == find_one(coll, class_id) IN
    IF i = 0
    THEN Append(coll, [class_id |-> class_id, bookings |-> <<entry>>,
                       waitlist |-> <<>>])
    ELSE [coll EXCEPT ![i].bookings = Append(@, entry)]

\* booking_collection.update_one({"class_id": id}, {"$push": {"waitlist":
\* entry}}, upsert=True)
push_waitlist(coll, class_id, entry) ==
    LET i == find_one(coll, class_id) IN
    IF i = 0
    THEN Append(coll, [class_id |-> class_id, bookings |-> <<>>,
                       waitlist |-> <<entry>>])
    ELSE [coll EXCEPT ![i].waitlist = Append(@, entry)]

\* pull_user removing the first element with that user_id only
pull_user_first(list, user_id) ==
    IF \E k \in 1 .. Len(list) : list[k].user_id = user_id
    THEN LET k == CHOOSE k \in 1 .. Len(list) :
                     /\ list[k].user_id = user_id
                     /\ \A j \in 1 .. (k - 1) : list[j].user_id # user_id
         IN  SubSeq(list, 1, k - 1) \o SubSeq(list, k + 1, Len(list))
    ELSE list

\* the array a $pull of {"user_id": user_id} leaves: every element with that
\* user_id is removed
pull_user(list, user_id) == SelectSeq(list, LAMBDA b : b.user_id # user_id)

\* the array a $pull of a whole entry leaves: every element equal to the
\* entry is removed
pull_entry(list, entry) == SelectSeq(list, LAMBDA b : b # entry)

\* pull_bookings pulling the user from the waitlist as well
pull_bookings_and_waitlist(coll, class_id, user_id) ==
    LET i == find_one(coll, class_id) IN
    IF i = 0
    THEN [coll |-> coll, modified_count |-> 0]
    ELSE LET left == pull_user(coll[i].bookings, user_id)
             wait == pull_user(coll[i].waitlist, user_id)
         IN  [coll |-> [coll EXCEPT ![i].bookings = left, ![i].waitlist = wait],
              modified_count |->
                  IF left = coll[i].bookings /\ wait = coll[i].waitlist
                  THEN 0 ELSE 1]

\* pull_bookings reporting matched_count in place of modified_count
pull_bookings_matched(coll, class_id, user_id) ==
    LET i == find_one(coll, class_id) IN
    IF i = 0
    THEN [coll |-> coll, modified_count |-> 0]
    ELSE [coll |-> [coll EXCEPT ![i].bookings = pull_user(@, user_id)],
          modified_count |-> 1]

\* booking_collection.update_one({"class_id": id}, {"$pull": {"bookings":
\* {"user_id": user_id}}}): the collection afterwards and modified_count.
pull_bookings(coll, class_id, user_id) ==
    LET i == find_one(coll, class_id) IN
    IF i = 0
    THEN [coll |-> coll, modified_count |-> 0]
    ELSE LET left == pull_user(coll[i].bookings, user_id) IN
         [coll |-> [coll EXCEPT ![i].bookings = left],
          modified_count |-> IF left = coll[i].bookings THEN 0 ELSE 1]

\* booking_collection.update_one({"class_id": id}, {"$push": {"bookings":
\* waitlist_entry}, "$pull": {"waitlist": waitlist_entry}})
promote(coll, class_id, waitlist_entry) ==
    LET i == find_one(coll, class_id) IN
    IF i = 0
    THEN coll
    ELSE [coll EXCEPT ![i].bookings = Append(@, waitlist_entry),
                      ![i].waitlist = pull_entry(@, waitlist_entry)]

(***************************************************************************)
(* HTTP responses.                                                         *)
(***************************************************************************)
Response(status, detail, body) ==
    [status |-> status, detail |-> detail, body |-> body]

Ok(message) == Response(200, message, <<>>)

HTTPException(status_code, detail) == Response(status_code, detail, <<>>)

(***************************************************************************)
(* The handlers, each as the function from the two collections and the     *)
(* request body to the collections afterwards and the response.            *)
(***************************************************************************)
Outcome(cc, bc, res) == [cc |-> cc, bc |-> bc, res |-> res]

\* @app.post("/create_class/")
create_class(cc, bc, class_data) ==
    IF find_one(cc, class_data.class_id) # 0
    THEN Outcome(cc, bc, HTTPException(400, "Class ID already exists"))
    ELSE Outcome(insert_one(cc, class_data), bc, Ok("Class created successfully"))

\* booking_data of book_slot: the body with class_name taken from the class
booking_data(booking, class_info) ==
    [booking EXCEPT !.class_name = class_info.class_name]

\* book_slot with the capacity test off by one (> in place of >=)
book_slot_off_by_one(cc, bc, booking) ==
    LET i == find_one(cc, booking.class_id) IN
    IF i = 0
    THEN Outcome(cc, bc, HTTPException(404, "Class not found"))
    ELSE LET class_info == cc[i]
             data == booking_data(booking, class_info)
         IN  IF class_info.bookings > class_info.total_slots
             THEN Outcome(inc_class(cc, booking.class_id, 0, 1).coll,
                          push_waitlist(bc, booking.class_id, data),
                          Ok("Added to waitlist"))
             ELSE Outcome(inc_class(cc, booking.class_id, 1, 0).coll,
                          push_bookings(bc, booking.class_id, data),
                          Ok("Booking confirmed"))

\* book_slot pushing the reservation before it looks the class up
book_slot_push_first(cc, bc, booking) ==
    LET i == find_one(cc, booking.class_id) IN
    IF i = 0
    THEN Outcome(cc, push_bookings(bc, booking.class_id, booking),
                 HTTPException(404, "Class not found"))
    ELSE LET class_info == cc[i]
             data == booking_data(booking, class_info)
         IN  IF class_info.bookings >= class_info.total_slots
             THEN Outcome(inc_class(cc, booking.class_id, 0, 1).coll,
                          push_waitlist(bc, booking.class_id, data),
                          Ok("Added to waitlist"))
             ELSE Outcome(inc_class(cc, booking.class_id, 1, 0).coll,
                          push_bookings(bc, booking.class_id, data),
                          Ok("Booking confirmed"))

\* @app.post("/book_slot/")
book_slot(cc, bc, booking) ==
    LET i == find_one(cc, booking.class_id) IN
    IF i = 0
    THEN Outcome(cc, bc, HTTPException(404, "Class not found"))
    ELSE LET class_info == cc[i]
             data == booking_data(booking, class_info)
         IN  IF class_info.bookings >= class_info.total_slots
             THEN Outcome(inc_class(cc, booking.class_id, 0, 1).coll,
                          push_waitlist(bc, booking.class_id, data),
                          Ok("Added to waitlist"))
             ELSE Outcome(inc_class(cc, booking.class_id, 1, 0).coll,
                          push_bookings(bc, booking.class_id, data),
                          Ok("Booking confirmed"))

\* @app.post("/cancel_booking/")
cancel_booking(cc, bc, request) ==
    LET class_id == request.class_id
        user_id == request.user_id
        i == find_one(bc, class_id)
    IN
    IF i = 0
    THEN Outcome(cc, bc, HTTPException(404, "Class not found"))
    ELSE
    LET booking_info == bc[i]
        current_bookings_count == Len(booking_info.bookings)
        result == pull_bookings(bc, class_id, user_id)
    IN
    IF result.modified_count = 0
    THEN Outcome(cc, result.coll, HTTPException(404, "Booking not found"))
    ELSE
    LET bc1 == result.coll
        bookings_removed ==
            current_bookings_count - Len(bc1[find_one(bc1, class_id)].bookings)
        update_result == inc_class(cc, class_id, 0 - bookings_removed, 0)
        cc1 == update_result.coll
    IN
    IF update_result.modified_count = 0
    THEN Outcome(cc1, bc1, HTTPException(500, "Failed to update class bookings"))
    ELSE
    IF Len(booking_info.waitlist) > 0
    THEN LET waitlist_entry == booking_info.waitlist[1] IN
         Outcome(inc_class(cc1, class_id, 1, 0 - 1).coll,
                 promote(bc1, class_id, waitlist_entry),
                 Ok("Booking canceled, waitlist updated"))
    ELSE Outcome(cc1, bc1, Ok("Booking canceled successfully"))

\* the result rows fetch_user_bookings builds from one booking document
RECURSIVE user_rows(_, _, _)
user_rows(class_info, user_id, k) ==
    IF k > Len(class_info.bookings)
    THEN <<>>
    ELSE LET booking == class_info.bookings[k]
             rest == user_rows(class_info, user_id, k + 1)
         IN  IF booking.user_id = user_id
             THEN <<[class_id |-> class_info.class_id,
                     class_name |-> booking.class_name,
                     booking_date |-> booking.booking_date]>> \o rest
             ELSE rest

\* all_rows reading one document only, as find_one would
all_rows_first(bc, user_id, d) ==
    LET hits == {e \in d .. Len(bc) : user_rows(bc[e], user_id, 1) # <<>>} IN
    IF hits = {}
    THEN <<>>
    ELSE user_rows(bc[CHOOSE e \in hits : \A f \in hits : e <= f], user_id, 1)

\* the result rows of all documents from position d on
RECURSIVE all_rows(_, _, _)
all_rows(bc, user_id, d) ==
    IF d > Len(bc)
    THEN <<>>
    ELSE user_rows(bc[d], user_id, 1) \o all_rows(bc, user_id, d + 1)

\* @app.get("/user_bookings/{user_id}")
fetch_user_bookings(cc, bc, user_id) ==
    LET results == all_rows(bc, user_id, 1) IN
    IF results = <<>>
    THEN Outcome(cc, bc, HTTPException(404, "No bookings found for this user"))
    ELSE Outcome(cc, bc, Response(200, "user_bookings", results))

\* @app.get("/class_list/")
fetch_class_list(cc, bc) == Outcome(cc, bc, Response(200, "classes", cc))

(***************************************************************************)
(* Requests served one at a time: each action is one whole handler.        *)
(***************************************************************************)
\* the counters of the class a request names, 0 for an unknown class
Counted(cc, class_id) ==
    LET i == find_one(cc, class_id) IN
    IF i = 0 THEN 0 ELSE cc[i].bookings + cc[i].waitlist

\* the bodies the requests served one at a time carry: every body for class
\* c1; for class c2 one registration and the bookings of one user
OneClassList ==
    {c \in ClassList :
        c.class_id = "c2" => (c.total_slots = 1 /\ c.bookings = 0)}

OneBooking == {b \in Booking : b.class_id = "c2" => b.user_id = "u1"}

RECURSIVE Stored(_, _)
Stored(bc, d) ==
    IF d > Len(bc) THEN 0
    ELSE Len(bc[d].bookings) + Len(bc[d].waitlist) + Stored(bc, d + 1)

Answer(op, req, out) ==
    /\ class_collection' = out.cc
    /\ booking_collection' = out.bc
    /\ resp' = [op |-> op, req |-> req, res |-> out.res]
    /\ UNCHANGED <<roadmaps_collection, saved>>

NoRequest == [op |-> "none", req |-> <<>>, res |-> Ok("")]

\* no concurrent worker
Idle == <<>>

Init ==
    /\ class_collection = <<>>
    /\ booking_collection = <<>>
    /\ resp = NoRequest
    /\ created = <<>>
    /\ everBooked = {}
    /\ procs = Idle
    /\ served = 0
    /\ roadmaps_collection = <<>>
    /\ saved = <<>>

CreateClass ==
    \E class_data \in OneClassList :
        LET out == create_class(class_collection, booking_collection, class_data) IN
        /\ Answer("create_class", class_data, out)
        /\ created' = IF out.res.status = 200 THEN Append(created, class_data)
                      ELSE created
        /\ UNCHANGED <<everBooked, procs, served>>

BookSlot ==
    \E booking \in OneBooking :
        LET out == book_slot(class_collection, booking_collection, booking) IN
        /\ Stored(booking_collection, 1) < MaxRes
        /\ Counted(class_collection, booking.class_id) <= MaxCount
        /\ Answer("book_slot", booking, out)
        /\ everBooked' = IF out.res.status = 200
                         THEN everBooked \cup {booking.class_id}
                         ELSE everBooked
        /\ UNCHANGED <<created, procs, served>>

CancelBooking ==
    \E request \in CancelBookingRequest :
        LET out == cancel_booking(class_collection, booking_collection, request) IN
        /\ Answer("cancel_booking", request, out)
        /\ UNCHANGED <<created, everBooked, procs, served>>

ListUserBookings ==
    \E user_id \in UserIds :
        LET out == fetch_user_bookings(class_collection, booking_collection, user_id) IN
        /\ Answer("fetch_user_bookings", user_id, out)
        /\ UNCHANGED <<created, everBooked, procs, served>>

ListClasses ==
    /\ Answer("fetch_class_list", <<>>,
              fetch_class_list(class_collection, booking_collection))
    /\ UNCHANGED <<created, everBooked, procs, served>>

Next ==
    \/ CreateClass
    \/ BookSlot
    \/ CancelBooking
    \/ ListUserBookings
    \/ ListClasses

Spec == Init /\ [][Next]_vars

(***************************************************************************)
(* Concurrent requests: every worker serves one request at a time and each *)
(* call to the store is one atomic step, so the steps of two requests      *)
(* interleave.  The workers take requests on one class.                    *)
(***************************************************************************)
Workers == {"w1", "w2"}

WorkerClassIds == {"c1"}
WorkerUserIds == {"u1", "u2", "u3"}

WorkerClassList ==
    {c \in ClassList : /\ c.class_id \in WorkerClassIds
                       /\ c.total_slots = 1
                       /\ c.bookings = 0 /\ c.waitlist = 0}

WorkerBooking ==
    [class_id : WorkerClassIds, class_name : ReqClassNames,
     user_name : UserNames, user_id : WorkerUserIds, booking_date : BookingDates]

WorkerCancel == [class_id : WorkerClassIds, user_id : WorkerUserIds]

\* a worker between requests
Free ==
    [pc |-> "idle", req |-> <<>>, class_info |-> <<>>, booking_info |-> <<>>,
     current_bookings_count |-> 0, bookings_removed |-> 0, last |-> NoRequest]

\* worker w takes up a request
Take(w) ==
    /\ w \in DOMAIN procs
    /\ procs[w].pc = "idle"
    /\ served < MaxReq
    /\ served' = served + 1

\* worker w is at control point pc of the request it serves
At(w, pc) ==
    /\ w \in DOMAIN procs
    /\ procs[w].pc = pc
    /\ served' = served

\* worker w answers its request
Reply(w, op, req, res) ==
    /\ procs' = [procs EXCEPT ![w] =
                    [Free EXCEPT !.last = [op |-> op, req |-> req, res |-> res]]]
    /\ resp' = [op |-> op, req |-> req, res |-> res]
    /\ UNCHANGED <<roadmaps_collection, saved>>

\* worker w goes on to control point pc with the locals of next
Goto(w, pc, next) ==
    /\ procs' = [procs EXCEPT ![w] = [next EXCEPT !.pc = pc]]
    /\ resp' = resp
    /\ UNCHANGED <<roadmaps_collection, saved>>

\* create_class, line 130: find_one on class_collection
CreateFind(w) ==
    \E class_data \in WorkerClassList :
        /\ Take(w)
        /\ IF find_one(class_collection, class_data.class_id) # 0
           THEN Reply(w, "create_class", class_data,
                      HTTPException(400, "Class ID already exists"))
           ELSE Goto(w, "create_insert", [procs[w] EXCEPT !.req = class_data])
        /\ UNCHANGED <<class_collection, booking_collection, created, everBooked>>

\* create_class, line 133: insert_one
CreateInsert(w) ==
    /\ At(w, "create_insert")
    /\ class_collection' = insert_one(class_collection, procs[w].req)
    /\ created' = Append(created, procs[w].req)
    /\ Reply(w, "create_class", procs[w].req, Ok("Class created successfully"))
    /\ UNCHANGED <<booking_collection, everBooked>>

\* book_slot, line 138: find_one on class_collection
BookFind(w) ==
    \E booking \in WorkerBooking :
        LET i == find_one(class_collection, booking.class_id) IN
        /\ Take(w)
        /\ IF i = 0
           THEN Reply(w, "book_slot", booking, HTTPException(404, "Class not found"))
           ELSE Goto(w, "book_push",
                     [procs[w] EXCEPT !.req = booking,
                                      !.class_info = class_collection[i]])
        /\ UNCHANGED <<class_collection, booking_collection, created, everBooked>>

\* book_slot, lines 146-151 and 158-162: the $push with upsert
BookPush(w) ==
    LET booking == procs[w].req
        class_info == procs[w].class_info
        data == booking_data(booking, class_info)
    IN
    /\ At(w, "book_push")
    /\ booking_collection' =
          IF class_info.bookings >= class_info.total_slots
          THEN push_waitlist(booking_collection, booking.class_id, data)
          ELSE push_bookings(booking_collection, booking.class_id, data)
    /\ Goto(w, "book_inc", procs[w])
    /\ UNCHANGED <<class_collection, created, everBooked>>

\* book_slot, lines 152-156 and 163-168: the $inc and the answer
BookInc(w) ==
    LET booking == procs[w].req
        class_info == procs[w].class_info
    IN
    /\ At(w, "book_inc")
    /\ IF class_info.bookings >= class_info.total_slots
       THEN /\ class_collection' =
                  inc_class(class_collection, booking.class_id, 0, 1).coll
            /\ Reply(w, "book_slot", booking, Ok("Added to waitlist"))
       ELSE /\ class_collection' =
                  inc_class(class_collection, booking.class_id, 1, 0).coll
            /\ Reply(w, "book_slot", booking, Ok("Booking confirmed"))
    /\ everBooked' = everBooked \cup {booking.class_id}
    /\ UNCHANGED <<booking_collection, created>>

\* cancel_booking, lines 175-180: find_one on booking_collection
CancelFind(w) ==
    \E request \in WorkerCancel :
        LET i == find_one(booking_collection, request.class_id) IN
        /\ Take(w)
        /\ IF i = 0
           THEN Reply(w, "cancel_booking", request,
                      HTTPException(404, "Class not found"))
           ELSE Goto(w, "cancel_pull",
                     [procs[w] EXCEPT
                         !.req = request,
                         !.booking_info = booking_collection[i],
                         !.current_bookings_count =
                             Len(booking_collection[i].bookings)])
        /\ UNCHANGED <<class_collection, booking_collection, created, everBooked>>

\* cancel_booking, lines 182-188: the $pull of the user's bookings
CancelPull(w) ==
    LET request == procs[w].req
        result == pull_bookings(booking_collection, request.class_id,
                                request.user_id)
    IN
    /\ At(w, "cancel_pull")
    /\ booking_collection' = result.coll
    /\ IF result.modified_count = 0
       THEN Reply(w, "cancel_booking", request,
                  HTTPException(404, "Booking not found"))
       ELSE Goto(w, "cancel_count", procs[w])
    /\ UNCHANGED <<class_collection, created, everBooked>>

\* cancel_booking, line 190: the second find_one
CancelCount(w) ==
    LET request == procs[w].req
        i == find_one(booking_collection, request.class_id)
    IN
    /\ At(w, "cancel_count")
    /\ Goto(w, "cancel_dec",
            [procs[w] EXCEPT !.bookings_removed =
                procs[w].current_bookings_count
                    - Len(booking_collection[i].bookings)])
    /\ UNCHANGED <<class_collection, booking_collection, created, everBooked>>

\* cancel_booking, lines 192-200 and 215: the $inc of -bookings_removed
CancelDec(w) ==
    LET request == procs[w].req
        update_result == inc_class(class_collection, request.class_id,
                                   0 - procs[w].bookings_removed, 0)
    IN
    /\ At(w, "cancel_dec")
    /\ class_collection' = update_result.coll
    /\ IF update_result.modified_count = 0
       THEN Reply(w, "cancel_booking", request,
                  HTTPException(500, "Failed to update class bookings"))
       ELSE IF Len(procs[w].booking_info.waitlist) > 0
            THEN Goto(w, "cancel_promote", procs[w])
            ELSE Reply(w, "cancel_booking", request,
                       Ok("Booking canceled successfully"))
    /\ UNCHANGED <<booking_collection, created, everBooked>>

\* cancel_booking, lines 201-208: the $push and $pull of waitlist_entry
CancelPromote(w) ==
    LET request == procs[w].req
        waitlist_entry == procs[w].booking_info.waitlist[1]
    IN
    /\ At(w, "cancel_promote")
    /\ booking_collection' =
          promote(booking_collection, request.class_id, waitlist_entry)
    /\ Goto(w, "cancel_inc", procs[w])
    /\ UNCHANGED <<class_collection, created, everBooked>>

\* cancel_booking, lines 209-213: the $inc of both counters and the answer
CancelInc(w) ==
    LET request == procs[w].req IN
    /\ At(w, "cancel_inc")
    /\ class_collection' =
          inc_class(class_collection, request.class_id, 1, 0 - 1).coll
    /\ Reply(w, "cancel_booking", request,
             Ok("Booking canceled, waitlist updated"))
    /\ UNCHANGED <<booking_collection, created, everBooked>>

InitWorkers ==
    /\ class_collection = <<>>
    /\ booking_collection = <<>>
    /\ resp = NoRequest
    /\ created = <<>>
    /\ everBooked = {}
    /\ procs = [w \in Workers |-> Free]
    /\ served = 0
    /\ roadmaps_collection = <<>>
    /\ saved = <<>>

NextWorkers ==
    \E w \in Workers :
        \/ CreateFind(w)
        \/ CreateInsert(w)
        \/ BookFind(w)
        \/ BookPush(w)
        \/ BookInc(w)
        \/ CancelFind(w)
        \/ CancelPull(w)
        \/ CancelCount(w)
        \/ CancelDec(w)
        \/ CancelPromote(w)
        \/ CancelInc(w)

SpecWorkers == InitWorkers /\ [][NextWorkers]_vars

(***************************************************************************)
(* The roadmap store.  A document of the roadmaps collection holds an      *)
(* email and the list of the roadmaps saved under it; a roadmap is a       *)
(* title, a list of nodes and a list of edges.                             *)
(***************************************************************************)
Emails == {"a@x", "b@x"}
Titles == {"t1", "t2"}
NodeLists == {<<>>, <<"n1">>}
EdgeLists == {<<>>, <<"e1">>}

\* class RoadmapRequest(BaseModel): the body of POST /roadmap/save
RoadmapRequest ==
    [userEmail : Emails, projectTitle : Titles, nodes : NodeLists,
     edges : EdgeLists]

\* roadmaps_collection.find_one({"email": email}): the position of the first
\* matching document, 0 when there is none.
find_email(coll, email) ==
    IF \E i \in 1 .. Len(coll) : coll[i].email = email
    THEN CHOOSE i \in 1 .. Len(coll) :
            /\ coll[i].email = email
            /\ \A j \in 1 .. (i - 1) : coll[j].email # email
    ELSE 0

\* the position of the first roadmap of the list with the title, 0 when there
\* is none: the for loops of save_roadmap and fetch_roadmap stop there
find_title(roadmaps, title) ==
    IF \E k \in 1 .. Len(roadmaps) : roadmaps[k].title = title
    THEN CHOOSE k \in 1 .. Len(roadmaps) :
            /\ roadmaps[k].title = title
            /\ \A j \in 1 .. (k - 1) : roadmaps[j].title # title
    ELSE 0

\* save_roadmap that appends without looking for the title
save_roadmap_append(coll, user_email, project_title, nodes, edges) ==
    LET i == find_email(coll, user_email)
        roadmap == [title |-> project_title, nodes |-> nodes, edges |-> edges]
    IN
    IF i # 0
    THEN [coll EXCEPT ![i].roadmaps = Append(@, roadmap)]
    ELSE insert_one(coll, [email |-> user_email, roadmaps |-> <<roadmap>>])

\* def save_roadmap(user_email, project_title, nodes, edges): the collection
\* afterwards
save_roadmap(coll, user_email, project_title, nodes, edges) ==
    LET i == find_email(coll, user_email)
        roadmap == [title |-> project_title, nodes |-> nodes, edges |-> edges]
    IN
    IF i # 0
    THEN LET k == find_title(coll[i].roadmaps, project_title) IN
         IF k # 0
         THEN [coll EXCEPT ![i].roadmaps[k].nodes = nodes,
                           ![i].roadmaps[k].edges = edges]
         ELSE [coll EXCEPT ![i].roadmaps = Append(@, roadmap)]
    ELSE insert_one(coll, [email |-> user_email, roadmaps |-> <<roadmap>>])

\* @app.post("/roadmap/save"): the response
save_roadmap_handler(roadmap) == Ok("Roadmap saved successfully")

\* the except clause of fetch_roadmap: whatever exception the try block
\* raises, the HTTPException of line 124 included, is answered with 500
except_Exception(raised) == HTTPException(500, "Failed to fetch roadmap")

\* @app.get("/roadmap/fetch/{email}/{project_title}"): the response
fetch_roadmap(coll, email, project_title) ==
    LET i == find_email(coll, email)
        k == IF i = 0 THEN 0 ELSE find_title(coll[i].roadmaps, project_title)
    IN
    IF k # 0
    THEN Response(200, "roadmap",
                  [nodes |-> coll[i].roadmaps[k].nodes,
                   edges |-> coll[i].roadmaps[k].edges])
    ELSE except_Exception(HTTPException(404, "Roadmap not found"))

\* def get_projects_by_email(email) and @app.get("/projects/{email}")
get_projects(coll, email) ==
    LET i == find_email(coll, email) IN
    IF i # 0
    THEN Response(200, "projects",
                  [k \in 1 .. Len(coll[i].roadmaps) |-> coll[i].roadmaps[k].title])
    ELSE Response(200, "projects", <<>>)

\* a roadmap request leaves the booking engine alone
AnswerRoadmap(op, req, res) ==
    /\ resp' = [op |-> op, req |-> req, res |-> res]
    /\ UNCHANGED <<class_collection, booking_collection, created, everBooked,
                   procs, served>>

SaveRoadmap ==
    \E roadmap \in RoadmapRequest :
        LET key == <<roadmap.userEmail, roadmap.projectTitle>>
            body == [nodes |-> roadmap.nodes, edges |-> roadmap.edges]
        IN
        /\ roadmaps_collection' =
              save_roadmap(roadmaps_collection, roadmap.userEmail,
                           roadmap.projectTitle, roadmap.nodes, roadmap.edges)
        /\ saved' = [p \in DOMAIN saved \cup {key} |->
                        IF p = key THEN body ELSE saved[p]]
        /\ AnswerRoadmap("save_roadmap", roadmap, save_roadmap_handler(roadmap))

FetchRoadmap ==
    \E email \in Emails, project_title \in Titles :
        /\ AnswerRoadmap("fetch_roadmap",
                         [email |-> email, project_title |-> project_title],
                         fetch_roadmap(roadmaps_collection, email, project_title))
        /\ UNCHANGED <<roadmaps_collection, saved>>

ListProjectTitles ==
    \E email \in Emails :
        /\ AnswerRoadmap("get_projects", email,
                         get_projects(roadmaps_collection, email))
        /\ UNCHANGED <<roadmaps_collection, saved>>

NextRoadmap ==
    \/ SaveRoadmap
    \/ FetchRoadmap
    \/ ListProjectTitles

SpecRoadmap == Init /\ [][NextRoadmap]_vars

(***************************************************************************)
(* Properties.  A step of Spec serves one whole request; resp' names the   *)
(* request served by the step and its response.                            *)
(***************************************************************************)
\* the bookings list of a class, empty when the class has no booking document
BookingsOf(bc, class_id) ==
    LET i == find_one(bc, class_id) IN
    IF i = 0 THEN <<>> ELSE bc[i].bookings

\* the waitlist of a class, empty when the class has no booking document
WaitlistOf(bc, class_id) ==
    LET i == find_one(bc, class_id) IN
    IF i = 0 THEN <<>> ELSE bc[i].waitlist

\* the number of occurrences of entry e in list
Count(list, e) == Cardinality({k \in 1 .. Len(list) : list[k] = e})

\* user_id has an entry in list
Holds(list, user_id) == \E k \in 1 .. Len(list) : list[k].user_id = user_id

\* class document i was registered with bookings = 0 and waitlist = 0
ZeroRegistered(i) == created[i].bookings = 0 /\ created[i].waitlist = 0

Served(op) == resp'.op = op

SameRecords ==
    /\ class_collection' = class_collection
    /\ booking_collection' = booking_collection

\* C1: for every class registered with bookings = 0 and waitlist = 0, in every
\* state between requests served one at a time, the bookings counter equals
\* the length of the bookings list and the waitlist counter equals the length
\* of the waitlist of the class.
C1_CountersMatchLists ==
    \A i \in 1 .. Len(class_collection) :
        ZeroRegistered(i) =>
            /\ class_collection[i].bookings
                  = Len(BookingsOf(booking_collection, class_collection[i].class_id))
            /\ class_collection[i].waitlist
                  = Len(WaitlistOf(booking_collection, class_collection[i].class_id))

\* what C2 says of one book_slot request on a class registered with bookings = 0
C2_BookStep ==
    LET booking == resp'.req
        i == find_one(class_collection, booking.class_id)
        class_id == booking.class_id
    IN
    (Served("book_slot") /\ i # 0 /\ created[i].bookings = 0) =>
        IF class_collection[i].bookings >= class_collection[i].total_slots
        THEN /\ resp'.res = Ok("Added to waitlist")
             /\ WaitlistOf(booking_collection', class_id)
                   = Append(WaitlistOf(booking_collection, class_id),
                            [class_id |-> class_id,
                             class_name |-> class_collection[i].class_name,
                             user_name |-> booking.user_name,
                             user_id |-> booking.user_id,
                             booking_date |-> booking.booking_date])
             /\ class_collection'[i].waitlist = class_collection[i].waitlist + 1
             /\ class_collection'[i].bookings = class_collection[i].bookings
             /\ BookingsOf(booking_collection', class_id)
                   = BookingsOf(booking_collection, class_id)
        ELSE /\ resp'.res = Ok("Booking confirmed")
             /\ class_collection'[i].bookings = class_collection[i].bookings + 1

\* bookings <= total_slots in every class registered with bookings = 0
C2_WithinCapacity ==
    \A i \in 1 .. Len(class_collection) :
        created[i].bookings = 0 =>
            class_collection[i].bookings <= class_collection[i].total_slots

\* the same, for the classes whose total_slots is not negative
C2_WithinCapacityOfRealClasses ==
    \A i \in 1 .. Len(class_collection) :
        (created[i].bookings = 0 /\ class_collection[i].total_slots >= 0) =>
            class_collection[i].bookings <= class_collection[i].total_slots

C3_PromotesExactlyTheHead ==
    [][LET request == resp'.req
           class_id == request.class_id
           b == BookingsOf(booking_collection, class_id)
           w == WaitlistOf(booking_collection, class_id)
           i == find_one(class_collection, class_id)
       IN  (Served("cancel_booking") /\ Holds(b, request.user_id) /\ w # <<>>) =>
               /\ resp'.res = Ok("Booking canceled, waitlist updated")
               /\ Count(BookingsOf(booking_collection', class_id), Head(w))
                     = 1 + (IF Head(w).user_id = request.user_id
                            THEN 0 ELSE Count(b, Head(w)))
               /\ WaitlistOf(booking_collection', class_id) = Tail(w)
               /\ class_collection'[i].waitlist = class_collection[i].waitlist - 1
      ]_vars

\* C4: at most one class document exists per class_id, whatever the
\* interleaving of the create_class requests.
C4_OneClassRecordPerId ==
    \A i, j \in 1 .. Len(class_collection) :
        class_collection[i].class_id = class_collection[j].class_id => i = j

\* C5: a create_class request that succeeds creates the class document with
\* bookings = 0 and waitlist = 0 whatever its body carries, and creates no
\* booking document.
C5_CreatedWithZeroCounters ==
    [][(Served("create_class") /\ resp'.res.status = 200) =>
           LET doc == class_collection'[Len(class_collection')] IN
           /\ Len(class_collection') = Len(class_collection) + 1
           /\ doc.class_id = resp'.req.class_id
           /\ doc.bookings = 0
           /\ doc.waitlist = 0
           /\ booking_collection' = booking_collection
      ]_vars

\* the request cancels for a user whose only reservations are waitlisted
C6_OnlyWaitlisted ==
    LET request == resp'.req IN
    /\ Served("cancel_booking")
    /\ Holds(WaitlistOf(booking_collection, request.class_id), request.user_id)
    /\ ~ Holds(BookingsOf(booking_collection, request.class_id), request.user_id)

\* C6 as claimed: cancel_booking for a user whose only reservation on the
\* class is waitlisted succeeds, removes the user's entry from the waitlist
\* and lowers the waitlist counter.
C6_AsClaimed ==
    [][C6_OnlyWaitlisted =>
           LET request == resp'.req
               i == find_one(class_collection, request.class_id)
           IN  /\ resp'.res.status = 200
               /\ ~ Holds(WaitlistOf(booking_collection', request.class_id),
                          request.user_id)
               /\ class_collection'[i].waitlist < class_collection[i].waitlist
      ]_vars

\* C6 (amended): cancel_booking for a user whose only reservation on the class
\* is waitlisted fails with "Booking not found" (404) and the reservation stays
\* waitlisted: the waitlist, the bookings list and the counters are unchanged.
C6_WaitlistedCancelFails ==
    [][C6_OnlyWaitlisted =>
           /\ resp'.res = HTTPException(404, "Booking not found")
           /\ SameRecords
      ]_vars

\* a cancel for a user who is only waitlisted was answered 404
C6_Witness ==
    /\ resp.op = "cancel_booking"
    /\ resp.res = HTTPException(404, "Booking not found")
    /\ Holds(WaitlistOf(booking_collection, resp.req.class_id), resp.req.user_id)
    /\ ~ Holds(BookingsOf(booking_collection, resp.req.class_id), resp.req.user_id)

\* C7: cancel_booking answers "Class not found" (404) exactly when the class
\* has no booking document, which is exactly when no book_slot request ever
\* succeeded for the class; it then changes no document; and a booking
\* document, once there, stays.
C7_NotFoundIffNoBookingRecord ==
    [][/\ Served("cancel_booking") =>
            LET missing == find_one(booking_collection, resp'.req.class_id) = 0 IN
            /\ (resp'.res = HTTPException(404, "Class not found")) <=> missing
            /\ missing <=> (resp'.req.class_id \notin everBooked)
            /\ missing => SameRecords
       /\ \A class_id \in ClassIds :
            /\ find_one(booking_collection, class_id) # 0
                  => find_one(booking_collection', class_id) # 0
            /\ (find_one(booking_collection', class_id) # 0)
                  <=> (class_id \in everBooked')
      ]_vars

\* a cancel on a registered class that was never booked was answered "Class
\* not found", while the booking document of another class, emptied by a
\* cancel, is still there
C7_Witness ==
    /\ resp.op = "cancel_booking"
    /\ resp.res = HTTPException(404, "Class not found")
    /\ find_one(class_collection, resp.req.class_id) # 0
    /\ find_one(booking_collection, resp.req.class_id) = 0
    /\ \E class_id \in ClassIds :
          /\ find_one(booking_collection, class_id) # 0
          /\ BookingsOf(booking_collection, class_id) = <<>>
          /\ WaitlistOf(booking_collection, class_id) = <<>>

\* C8: cancel_booking on a class that has a booking document but no confirmed
\* reservation of the user fails with "Booking not found" (404) and changes
\* nothing: both lists and both counters stay, nothing is promoted.
C8_BookingNotFoundChangesNothing ==
    [][LET request == resp'.req IN
       (/\ Served("cancel_booking")
        /\ find_one(booking_collection, request.class_id) # 0
        /\ ~ Holds(BookingsOf(booking_collection, request.class_id),
                   request.user_id)) =>
           /\ resp'.res = HTTPException(404, "Booking not found")
           /\ SameRecords
      ]_vars

\* a cancel for a user with no reservation was answered 404 on a class with
\* confirmed bookings and a waitlist
C8_Witness ==
    /\ resp.op = "cancel_booking"
    /\ resp.res = HTTPException(404, "Booking not found")
    /\ BookingsOf(booking_collection, resp.req.class_id) # <<>>
    /\ WaitlistOf(booking_collection, resp.req.class_id) # <<>>
    /\ ~ Holds(WaitlistOf(booking_collection, resp.req.class_id), resp.req.user_id)
    /\ ~ Holds(BookingsOf(booking_collection, resp.req.class_id), resp.req.user_id)

\* C9: book_slot on a class_id with no class document fails with "Class not
\* found" (404) and changes nothing: no booking document, no reservation.
C9_UnknownClassChangesNothing ==
    [][(/\ Served("book_slot")
        /\ find_one(class_collection, resp'.req.class_id) = 0) =>
           /\ resp'.res = HTTPException(404, "Class not found")
           /\ SameRecords
           /\ find_one(booking_collection', resp'.req.class_id) = 0
      ]_vars

\* a booking on an unregistered class was answered 404 while another class
\* holds reservations
C9_Witness ==
    /\ resp.op = "book_slot"
    /\ resp.res = HTTPException(404, "Class not found")
    /\ find_one(class_collection, resp.req.class_id) = 0
    /\ find_one(booking_collection, resp.req.class_id) = 0
    /\ Len(booking_collection) = 1
    /\ Len(class_collection) = 1

\* the confirmed reservations of a user: document and position in its list
Confirmed(bc, user_id) ==
    {dk \in (1 .. Len(bc)) \X (1 .. MaxRes + 1) :
        /\ dk[2] <= Len(bc[dk[1]].bookings)
        /\ bc[dk[1]].bookings[dk[2]].user_id = user_id}

\* row is the result row of the reservation at dk
RowOf(bc, dk, row) ==
    /\ row.class_id = bc[dk[1]].class_id
    /\ row.class_name = bc[dk[1]].bookings[dk[2]].class_name
    /\ row.booking_date = bc[dk[1]].bookings[dk[2]].booking_date

\* C10: fetch_user_bookings fails with 404 exactly when the user has no
\* confirmed reservation in any class (waitlisted ones do not count);
\* otherwise it returns one row per confirmed reservation of the user over all
\* booking documents; and it changes no document.
C10_ListsConfirmedReservations ==
    [][Served("fetch_user_bookings") =>
           LET mine == Confirmed(booking_collection, resp'.req)
               rows == resp'.res.body
           IN  /\ SameRecords
               /\ (resp'.res = HTTPException(404, "No bookings found for this user"))
                     <=> (mine = {})
               /\ mine # {} =>
                     /\ resp'.res.status = 200
                     /\ Len(rows) = Cardinality(mine)
                     /\ \A dk \in mine : \E r \in 1 .. Len(rows) :
                           RowOf(booking_collection, dk, rows[r])
                     /\ \A r \in 1 .. Len(rows) : \E dk \in mine :
                           RowOf(booking_collection, dk, rows[r])
      ]_vars

\* the bookings of a user confirmed in two classes and waitlisted in one were
\* listed: two rows
C10_Witness ==
    /\ resp.op = "fetch_user_bookings"
    /\ resp.res.status = 200
    /\ Len(resp.res.body) = 2
    /\ resp.res.body[1].class_id # resp.res.body[2].class_id
    /\ \E d \in 1 .. Len(booking_collection) :
          Holds(booking_collection[d].waitlist, resp.req)

\* the roadmaps stored under an email, none when the email has no document
RoadmapsOf(coll, email) ==
    LET i == find_email(coll, email) IN
    IF i = 0 THEN <<>> ELSE coll[i].roadmaps

\* no title occurs twice in the roadmap list of any document
TitlesOnce(coll) ==
    \A i \in 1 .. Len(coll) :
        \A k, l \in 1 .. Len(coll[i].roadmaps) :
            coll[i].roadmaps[k].title = coll[i].roadmaps[l].title => k = l

\* C11: after any sequence of save requests each title occurs at most once in
\* the roadmap list of an email; a save of an existing (email, title) replaces
\* its nodes and edges in place and a save of a new title appends it, every
\* other roadmap of the email staying as it was; and a fetch of (email, title)
\* returns the nodes and edges of the most recent save of that pair.
C11_SaveIsUpsert ==
    [][/\ TitlesOnce(roadmaps_collection')
       /\ Served("save_roadmap") =>
             LET roadmap == resp'.req
                 old == RoadmapsOf(roadmaps_collection, roadmap.userEmail)
                 new == RoadmapsOf(roadmaps_collection', roadmap.userEmail)
                 known == \E k \in 1 .. Len(old) :
                             old[k].title = roadmap.projectTitle
             IN  /\ Len(new) = IF known THEN Len(old) ELSE Len(old) + 1
                 /\ \A k \in 1 .. Len(old) :
                       IF old[k].title = roadmap.projectTitle
                       THEN new[k] = [title |-> roadmap.projectTitle,
                                      nodes |-> roadmap.nodes,
                                      edges |-> roadmap.edges]
                       ELSE new[k] = old[k]
                 /\ \A email \in Emails \ {roadmap.userEmail} :
                       RoadmapsOf(roadmaps_collection', email)
                          = RoadmapsOf(roadmaps_collection, email)
       /\ (/\ Served("fetch_roadmap")
           /\ <<resp'.req.email, resp'.req.project_title>> \in DOMAIN saved) =>
             /\ resp'.res.status = 200
             /\ resp'.res.body = saved[<<resp'.req.email, resp'.req.project_title>>]
             /\ roadmaps_collection' = roadmaps_collection
      ]_vars

\* the first of two roadmaps of an email was saved again with other nodes and
\* then fetched: the fetch returned the nodes of the last save
C11_Witness ==
    /\ resp.op = "fetch_roadmap"
    /\ resp.res.status = 200
    /\ LET roadmaps == RoadmapsOf(roadmaps_collection, resp.req.email) IN
       /\ Len(roadmaps) = 2
       /\ roadmaps[1].title = resp.req.project_title
       /\ roadmaps[1].nodes = <<"n1">>
       /\ roadmaps[2].nodes = <<>>
       /\ resp.res.body.nodes = <<"n1">>
       /\ resp.res.body = saved[<<resp.req.email, resp.req.project_title>>]

\* C12: a fetch for an email with no stored document, or with no roadmap of
\* the title, is answered 404 and not 500.
C12_MissingRoadmapIs404 ==
    [][(/\ Served("fetch_roadmap")
        /\ \A k \in 1 .. Len(RoadmapsOf(roadmaps_collection, resp'.req.email)) :
              RoadmapsOf(roadmaps_collection, resp'.req.email)[k].title
                 # resp'.req.project_title) =>
           resp'.res.status = 404
      ]_vars

\* worker w moves from control point from to control point to
Moves(w, from, to) == procs[w].pc = from /\ procs'[w].pc = to

\* the first class document of the class
ClassOf(cc, class_id) == cc[find_one(cc, class_id)]

\* C13: book_slot decides on the class document it read, not on the document
\* as it is when it writes: a worker whose snapshot has bookings < total_slots
\* pushes to the bookings list, adds 1 to the bookings counter whatever the
\* counter is by then, and answers "Booking confirmed".  So two calls that
\* both read bookings = total_slots - 1 are both confirmed and leave the
\* counter and the list above total_slots (C13_Witness).
C13_DecidesOnSnapshot ==
    [][\A w \in Workers :
          LET class_info == procs[w].class_info
              class_id == procs[w].req.class_id
              free == class_info.bookings < class_info.total_slots
          IN  /\ (Moves(w, "book_push", "book_inc") /\ free) =>
                    Len(BookingsOf(booking_collection', class_id))
                       = Len(BookingsOf(booking_collection, class_id)) + 1
              /\ (Moves(w, "book_inc", "idle") /\ free) =>
                    /\ procs'[w].last.res = Ok("Booking confirmed")
                    /\ ClassOf(class_collection', class_id).bookings
                          = ClassOf(class_collection, class_id).bookings + 1
      ]_vars

\* a class of one slot was registered and two book_slot calls ran, interleaved:
\* both were answered "Booking confirmed", the counter is 2 and the bookings
\* list holds 2 reservations
C13_Witness ==
    /\ served = 3
    /\ Len(class_collection) = 1
    /\ class_collection[1].total_slots = 1
    /\ class_collection[1].bookings = 2
    /\ Len(BookingsOf(booking_collection, class_collection[1].class_id)) = 2
    /\ \A w \in Workers :
          /\ procs[w].pc = "idle"
          /\ procs[w].last.op = "book_slot"
          /\ procs[w].last.res = Ok("Booking confirmed")
    /\ procs["w1"].last.req.user_id # procs["w2"].last.req.user_id

\* C14: for classes registered with bookings = 0 and waitlist = 0, both
\* counters are >= 0 in every reachable state, under every interleaving of the
\* store calls of concurrent book_slot and cancel_booking requests.
C14_CountersNeverNegative ==
    \A i \in 1 .. Len(class_collection) :
        ZeroRegistered(i) =>
            /\ class_collection[i].bookings >= 0
            /\ class_collection[i].waitlist >= 0

\* the reservations a request body can create in a class
Reservations ==
    [class_id : ClassIds, class_name : ClassNames, user_name : UserNames,
     user_id : UserIds \cup WorkerUserIds, booking_date : BookingDates]

\* the number of copies of reservation e in the two lists of its class
Copies(bc, e) ==
    Count(BookingsOf(bc, e.class_id), e) + Count(WaitlistOf(bc, e.class_id), e)

\* C15: under every interleaving, a reservation is placed by the book_slot
\* call that creates it and by nothing else: the number of copies of a
\* reservation in the bookings list and the waitlist together grows only in
\* the $push of a book_slot call, and by one; in particular the promotion of
\* cancel_booking moves an entry and never adds one, so two concurrent
\* cancels never promote the same waitlist entry twice.
C15_PlacedExactlyOnce ==
    [][\A e \in Reservations :
          Copies(booking_collection', e) > Copies(booking_collection, e) =>
              /\ Copies(booking_collection', e) = Copies(booking_collection, e) + 1
              /\ \E w \in Workers :
                    /\ Moves(w, "book_push", "book_inc")
                    /\ procs[w].req.user_id = e.user_id
      ]_vars

\* C16: a cancel_booking request that succeeds removes every entry of the
\* bookings list with the user_id, removes no entry of another user, and
\* lowers the bookings counter by the number of entries removed; the promotion
\* of the waitlist head, when there is one, comes on top: one entry appended
\* and 1 added to the counter.
C16_CancelRemovesAllOfTheUser ==
    [][(Served("cancel_booking") /\ resp'.res.status = 200) =>
           LET request == resp'.req
               class_id == request.class_id
               b == BookingsOf(booking_collection, class_id)
               after == BookingsOf(booking_collection', class_id)
               w == WaitlistOf(booking_collection, class_id)
               promoted == IF w # <<>> THEN 1 ELSE 0
               rest == SubSeq(after, 1, Len(after) - promoted)
               removed == Cardinality({k \in 1 .. Len(b) :
                                          b[k].user_id = request.user_id})
           IN  /\ removed >= 1
               /\ Len(rest) = Len(b) - removed
               /\ ~ Holds(rest, request.user_id)
               /\ \A e \in Reservations :
                     e.user_id # request.user_id => Count(rest, e) = Count(b, e)
               /\ promoted = 1 => after[Len(after)] = w[1]
               /\ ClassOf(class_collection', class_id).bookings
                     = ClassOf(class_collection, class_id).bookings
                          - removed + promoted
      ]_vars

\* a cancel freed both seats of a class of two slots, held by one user, and
\* promoted the one waitlisted reservation of another user
C16_Witness ==
    /\ resp.op = "cancel_booking"
    /\ resp.res = Ok("Booking canceled, waitlist updated")
    /\ LET i == find_one(class_collection, resp.req.class_id)
           b == BookingsOf(booking_collection, resp.req.class_id)
       IN  /\ ZeroRegistered(i)
           /\ class_collection[i].total_slots = 2
           /\ class_collection[i].bookings = 1
           /\ class_collection[i].waitlist = 0
           /\ Len(b) = 1
           /\ b[1].user_id # resp.req.user_id
           /\ Stored(booking_collection, 1) = 1

(***************************************************************************)
(* One class with at least one slot, registered with the default counters, *)
(* and the requests on it served one at a time: the setting of the         *)
(* waitlist's queue discipline.                                            *)
(***************************************************************************)
QueueClassList ==
    {c \in ClassList : /\ c.class_id = "c1"
                       /\ c.total_slots >= 1
                       /\ c.bookings = 0 /\ c.waitlist = 0}

QueueBooking == {b \in Booking : b.class_id = "c1"}

QueueCancel == {r \in CancelBookingRequest : r.class_id = "c1"}

QueueCreate ==
    \E class_data \in QueueClassList :
        LET out == create_class(class_collection, booking_collection, class_data) IN
        /\ Answer("create_class", class_data, out)
        /\ created' = IF out.res.status = 200 THEN Append(created, class_data)
                      ELSE created
        /\ UNCHANGED <<everBooked, procs, served>>

QueueBook ==
    \E booking \in QueueBooking :
        LET out == book_slot(class_collection, booking_collection, booking) IN
        /\ Stored(booking_collection, 1) < MaxQueue
        /\ Counted(class_collection, booking.class_id) <= MaxQueue
        /\ Answer("book_slot", booking, out)
        /\ everBooked' = IF out.res.status = 200
                         THEN everBooked \cup {booking.class_id}
                         ELSE everBooked
        /\ UNCHANGED <<created, procs, served>>

QueueCancelBooking ==
    \E request \in QueueCancel :
        LET out == cancel_booking(class_collection, booking_collection, request) IN
        /\ Answer("cancel_booking", request, out)
        /\ UNCHANGED <<created, everBooked, procs, served>>

NextQueue ==
    \/ QueueCreate
    \/ QueueBook
    \/ QueueCancelBooking

SpecQueue == Init /\ [][NextQueue]_vars

\* every class with a non-empty waitlist is full
C17_WaitlistOnlyWhenFull ==
    \A i \in 1 .. Len(class_collection) :
        WaitlistOf(booking_collection, class_collection[i].class_id) # <<>> =>
            class_collection[i].bookings = class_collection[i].total_slots

\* no book_slot request is confirmed while the waitlist of its class holds a
\* reservation
C17_NoQueueJump ==
    (Served("book_slot") /\ resp'.res = Ok("Booking confirmed")) =>
        WaitlistOf(booking_collection, resp'.req.class_id) = <<>>

\* a promotion confirms the reservation that has waited longest
C17_PromotesOldest ==
    (Served("cancel_booking")
        /\ resp'.res = Ok("Booking canceled, waitlist updated")) =>
        LET after == BookingsOf(booking_collection', resp'.req.class_id)
            w == WaitlistOf(booking_collection, resp'.req.class_id)
        IN  /\ w # <<>>
            /\ after[Len(after)] = w[1]

\* C17: with requests served one at a time, in every state between requests a
\* class with a non-empty waitlist has bookings = total_slots, so no book_slot
\* request is confirmed while an earlier reservation of the class is
\* waitlisted, and waitlisted reservations are confirmed in the order in which
\* they were waitlisted.
C17_FifoNoQueueJumping ==
    [][C17_WaitlistOnlyWhenFull' /\ C17_NoQueueJump /\ C17_PromotesOldest]_vars

====
